---- MODULE Spec2Model ----
(***************************************************************************)
(* Model of the pptx -> Figma slide importer (src/src/code.ts).            *)
(*                                                                         *)
(* Strings are sequences of one-symbol tokens; a multi-letter token such   *)
(* as "png" stands for letters that are neither "." nor "/".  A value that *)
(* JavaScript leaves undefined is the token sequence Undefined.  A result  *)
(* "T | null" is a sequence of length 0 (null) or 1.                       *)
(***************************************************************************)
EXTENDS Integers, Sequences, FiniteSets, TLC

VARIABLES
    pc,          \* position of handleFileMessage: "idle", "parse", "render", "done"
    zipSlides,   \* entries ppt/slides/slide<name>.xml of zip.files, in enumeration order
    zipRels,     \* entries ppt/slides/_rels/slide<name>.xml.rels of zip.files
    zipMedia,    \* the other entries of zip.files (image parts), by path
    msgData,     \* msg.data: "zip", "corrupt" (JSZip rejects it) or "notbuffer"
    slideGrids,  \* number of grid styles figma.getLocalGridStylesAsync() returned
    slidePaths,  \* parseSlides: the sorted slide paths
    next,        \* parseSlides: index in slidePaths of the next path of the for loop
    slides,      \* parseSlides: the SlideData[] under construction, then the rendered list
    origin,      \* history: origin[i] is the path slides[i] was made from
    frames,      \* the frames renderSlidesToFrames appended to parentFrame
    failed,      \* handleFileMessage reached its catch block
    fnPc,        \* unit harness: which function is applied next
    fnIn,        \* unit harness: the argument
    fnOut        \* unit harness: the results so far

vars == <<pc, zipSlides, zipRels, zipMedia, msgData, slideGrids, slidePaths, next,
          slides, origin, frames, failed, fnPc, fnIn, fnOut>>

pipeVars == <<pc, zipSlides, zipRels, zipMedia, msgData, slideGrids, slidePaths, next,
              slides, origin, frames, failed>>

fnVars == <<fnPc, fnIn, fnOut>>

----------------------------------------------------------------------------
(* Strings *)

Undefined == <<"undefined">>

Range(s) == {s[i] : i \in 1..Len(s)}

\* All sequences over S of length 0..n.
RECURSIVE SeqsUpTo(_, _)
SeqsUpTo(S, n) ==
    IF n = 0 THEN {<<>>}
    ELSE LET shorter == SeqsUpTo(S, n - 1)
         IN  shorter \cup {Append(s, x) : s \in {t \in shorter : Len(t) = n - 1}, x \in S}

\* String.prototype.toUpperCase on one character.
ToUpperCase(c) ==
    CASE c = "a" -> "A"
      [] c = "b" -> "B"
      [] OTHER -> c

\* s.startsWith(pat) at offset i (1-based).
MatchesAt(s, pat, i) ==
    /\ i + Len(pat) - 1 <= Len(s)
    /\ \A k \in 1..Len(pat) : s[i + k - 1] = pat[k]

\* s.indexOf(pat), 1-based; 0 when pat does not occur.
IndexOf(s, pat) ==
    IF \E i \in 1..Len(s) : MatchesAt(s, pat, i)
    THEN CHOOSE i \in 1..Len(s) :
            /\ MatchesAt(s, pat, i)
            /\ \A j \in 1..(i - 1) : ~MatchesAt(s, pat, j)
    ELSE 0

\* s.replace(pat, '') with a string pattern: the first occurrence only.
ReplaceFirstWithEmpty(s, pat) ==
    LET i == IndexOf(s, pat)
    IN  IF i = 0 THEN s
        ELSE SubSeq(s, 1, i - 1) \o SubSeq(s, i + Len(pat), Len(s))

\* s.split('.').pop(): what follows the last "." (all of s when it has none).
LastDotSegment(s) ==
    LET dots == {i \in 1..Len(s) : s[i] = "."}
    IN  IF dots = {} THEN s
        ELSE LET last == CHOOSE i \in dots : \A j \in dots : j <= i
             IN  SubSeq(s, last + 1, Len(s))

\* parseInt of a string of decimal digits (digits are the numbers 0..9).
RECURSIVE ParseInt(_)
ParseInt(ds) ==
    IF ds = <<>> THEN 0
    ELSE 10 * ParseInt(SubSeq(ds, 1, Len(ds) - 1)) + ds[Len(ds)]

----------------------------------------------------------------------------
(* extractTextData *)

\* Placeholder types, as strings of tokens: "ctrTitle" has a capital T and so
\* does not contain "title".
PhTitle == <<"title">>
PhCtrTitle == <<"ctr", "Title">>
PhBody == <<"body">>
PhNoType == <<"notype">>   \* a p:ph element with attributes, none of them type
PhAbsent == <<"absent">>   \* no p:ph element, or one without attributes

\* type.includes(needle)
Includes(type, needle) == IndexOf(type, needle) # 0

\* The predicate handed to shapes.find: "yes", "no", or "throw" when the
\* placeholder has attributes but no type ($.type is undefined, .includes throws).
TitlePredicate(shape) ==
    CASE shape.ph = PhAbsent -> "no"
      [] shape.ph = PhNoType -> "throw"
      [] OTHER -> IF Includes(shape.ph, PhTitle) \/ Includes(shape.ph, PhCtrTitle)
                  THEN "yes" ELSE "no"

\* shapes.find(...): the index of the first shape the predicate accepts, 0 when
\* there is none, -1 when the predicate throws before one is found.
RECURSIVE FindTitleShape(_, _)
FindTitleShape(shapes, i) ==
    IF i > Len(shapes) THEN 0
    ELSE CASE TitlePredicate(shapes[i]) = "throw" -> -1
           [] TitlePredicate(shapes[i]) = "yes" -> i
           [] OTHER -> FindTitleShape(shapes, i + 1)

\* found?.['p:txBody']?.[0]?.['a:p']?.[0]?.['a:r']?.[0]?.['a:t']?.[0] || ''
TitleOf(shapes, i) ==
    IF /\ i > 0
       /\ shapes[i].hasBody
       /\ Len(shapes[i].paras) > 0
       /\ Len(shapes[i].paras[1].runs) > 0
       /\ shapes[i].paras[1].runs[1].t # Undefined
    THEN shapes[i].paras[1].runs[1].t
    ELSE <<>>

\* The inner loop over paragraph['a:r']: the runs whose text differs from the title.
TextArray(paragraph, title) ==
    LET kept == SelectSeq(paragraph.runs, LAMBDA r : r.t # title)
    IN  [k \in 1..Len(kept) |-> [text |-> kept[k].t, isBold |-> kept[k].b = "1"]]

\* isList = !paragraphProps || !paragraphProps['a:buNone']
IsList(paragraph) == paragraph.pPr # "buNone"

\* The loop over the paragraphs of one shape.
RECURSIVE ParagraphsOfShape(_, _, _)
ParagraphsOfShape(paras, j, title) ==
    IF j > Len(paras) THEN <<>>
    ELSE LET textArray == TextArray(paras[j], title)
             rest == ParagraphsOfShape(paras, j + 1, title)
         IN  IF Len(textArray) = 0 THEN rest
             ELSE <<[text |-> textArray, isList |-> IsList(paras[j])]>> \o rest

\* The loop over the shapes.
RECURSIVE ParagraphsOfShapes(_, _, _)
ParagraphsOfShapes(shapes, i, title) ==
    IF i > Len(shapes) THEN <<>>
    ELSE (IF shapes[i].hasBody THEN ParagraphsOfShape(shapes[i].paras, 1, title) ELSE <<>>)
         \o ParagraphsOfShapes(shapes, i + 1, title)

extractTextData(slideData) ==
    LET found == FindTitleShape(slideData.shapes, 1)
        title == TitleOf(slideData.shapes, found)
    IN  IF found = -1
        THEN [threw |-> TRUE, title |-> <<>>, paragraphs |-> <<>>]
        ELSE [threw |-> FALSE, title |-> title,
              paragraphs |-> ParagraphsOfShapes(slideData.shapes, 1, title)]

----------------------------------------------------------------------------
(* formatParagraphItems *)

\* t.text[0].toUpperCase() + t.text.slice(1): throws when text is '' or undefined.
CapitalizeThrows(text) == text = Undefined \/ text = <<>>

Capitalize(text) == <<ToUpperCase(text[1])>> \o SubSeq(text, 2, Len(text))

FormatParagraph(p) ==
    [text |-> [k \in 1..Len(p.text) |->
                 [text |-> IF k = 1 THEN Capitalize(p.text[k].text) ELSE p.text[k].text,
                  isBold |-> p.text[k].isBold]],
     isList |-> p.isList]

formatParagraphItems(paragraphs) ==
    IF \E j \in 1..Len(paragraphs) :
           Len(paragraphs[j].text) > 0 /\ CapitalizeThrows(paragraphs[j].text[1].text)
    THEN [threw |-> TRUE, value |-> <<>>]
    ELSE [threw |-> FALSE,
          value |-> [j \in 1..Len(paragraphs) |-> FormatParagraph(paragraphs[j])]]

----------------------------------------------------------------------------
(* extractImagePaths *)

ImageType == "http://schemas.openxmlformats.org/officeDocument/2006/relationships/image"
OtherType == "http://schemas.openxmlformats.org/officeDocument/2006/relationships/slideLayout"

Ppt == <<"ppt", "/">>
DotDotSlash == <<".", ".", "/">>

\* `ppt/${relationship.$.Target.replace('../', '')}`
ImagePath(target) == Ppt \o ReplaceFirstWithEmpty(target, DotDotSlash)

\* relationship.$.Type reads a property of undefined when the element has no
\* attributes; Target.replace does when an image relationship has no Target.
RelationshipThrows(r) ==
    \/ ~r.hasAttrs
    \/ r.Type = ImageType /\ r.Target = Undefined

\* The for loop of extractImagePaths from relationship i on, images being the
\* list built so far; <<>> wrapped in a record, or threw.
RECURSIVE ImagesLoop(_, _, _)
ImagesLoop(relationships, i, images) ==
    IF i > Len(relationships) THEN [threw |-> FALSE, value |-> images]
    ELSE IF RelationshipThrows(relationships[i]) THEN [threw |-> TRUE, value |-> <<>>]
    ELSE IF relationships[i].Type = ImageType
         THEN ImagesLoop(relationships, i + 1,
                         Append(images, ImagePath(relationships[i].Target)))
         ELSE ImagesLoop(relationships, i + 1, images)

\* extractImagePaths without the test of relationship.$.Type.
extractImagePathsAnyType(relsData) ==
    IF \E i \in 1..Len(relsData.rels) : RelationshipThrows(relsData.rels[i])
    THEN [threw |-> TRUE, value |-> <<>>]
    ELSE [threw |-> FALSE,
          value |-> [i \in 1..Len(relsData.rels) |-> ImagePath(relsData.rels[i].Target)]]

extractImagePaths(relsData) == ImagesLoop(relsData.rels, 1, <<>>)

----------------------------------------------------------------------------
(* createImageFrames *)

SupportedImageTypes == {<<"png">>, <<"jpeg">>, <<"jpg">>}

\* The for loop of createImageFrames: an image node is created for a path that
\* zip.file finds and whose last dot segment is png, jpeg or jpg; the other
\* paths only log an error.  picFrame exists when there are several images.
\* createImageFrames without the test of the image type.
createImageFramesAnyType(images, media) ==
    [picFrame |-> Len(images) > 1,
     nodes |-> SelectSeq(images, LAMBDA imagePath : imagePath \in media)]

createImageFrames(images, media) ==
    [picFrame |-> Len(images) > 1,
     nodes |-> SelectSeq(images, LAMBDA imagePath :
                   /\ imagePath \in media
                   /\ LastDotSegment(imagePath) \in SupportedImageTypes)]

----------------------------------------------------------------------------
(* parseSlides and processSlide *)

\* Object.keys(zip.files).filter(path => path.startsWith('ppt/slides/slide'))
getSlidePaths(zipS) == [i \in 1..Len(zipS) |-> zipS[i].name]

\* parseInt(a.match(/slide(\d+)/)?.[1] || '0'): a path is named by its digits.
SlideNumber(path) == IF path = <<>> THEN ParseInt(<<0>>) ELSE ParseInt(path)

\* Array.prototype.sort with the comparator numA - numB (a stable sort):
\* x goes behind every element that does not compare greater.
RECURSIVE InsertByNumber(_, _)
InsertByNumber(sorted, x) ==
    IF sorted = <<>> THEN <<x>>
    ELSE IF SlideNumber(Head(sorted)) - SlideNumber(x) > 0
         THEN <<x>> \o sorted
         ELSE <<Head(sorted)>> \o InsertByNumber(Tail(sorted), x)

\* The paths left in the order the archive enumerates them.
SortSkipped(paths) == paths

RECURSIVE SortByNumber(_)
SortByNumber(paths) ==
    IF paths = <<>> THEN <<>>
    ELSE InsertByNumber(SortByNumber(SubSeq(paths, 1, Len(paths) - 1)), paths[Len(paths)])

\* The keys of slideToRelsMap: `ppt/slides/slide${slideNumber}.xml` for every
\* rels path with digits; the value of a key is the rels path of the same digits.
getSlideToRelsMap(zipR) == {zipR[i].name : i \in {k \in 1..Len(zipR) : zipR[k].name # <<>>}}

\* zip.file(name): the entry of that name, as T | null.
ZipFile(entries, name) == SelectSeq(entries, LAMBDA e : e.name = name)

\* processSlide(zip, path, slideToRelsMap[path]): SlideData | null.
processSlide(zipS, zipR, path) ==
    LET slideFile == ZipFile(zipS, path)
        relsFile == IF path \in getSlideToRelsMap(zipR) THEN ZipFile(zipR, path) ELSE <<>>
    IN  IF slideFile = <<>> \/ relsFile = <<>> THEN <<>>
        ELSE IF ~slideFile[1].doc.ok \/ ~relsFile[1].doc.ok THEN <<>>
        ELSE LET textData == extractTextData(slideFile[1].doc)
                 images == extractImagePaths(relsFile[1].doc)
                 text == formatParagraphItems(textData.paragraphs)
             IN  IF textData.threw \/ images.threw \/ text.threw THEN <<>>
                 ELSE <<[title |-> textData.title,
                         text |-> text.value,
                         images |-> images.value,
                         number |-> 0]>>

----------------------------------------------------------------------------
(* renderSlidesToFrames *)

\* t.text.length in createTextFrames reads a property of undefined.
ParagraphThrows(p) == \E k \in 1..Len(p.text) : p.text[k].text = Undefined

TextFramesThrow(paragraphItems) ==
    \E j \in 1..Len(paragraphItems) : ParagraphThrows(paragraphItems[j])

FirstThrowing(paragraphItems) ==
    CHOOSE j \in 1..Len(paragraphItems) :
        /\ ParagraphThrows(paragraphItems[j])
        /\ \A i \in 1..(j - 1) : ~ParagraphThrows(paragraphItems[i])

\* A frame that createImageFrames was not reached for.
NoImageFrames == [picFrame |-> FALSE, nodes |-> <<>>]

\* textFrame.characters = p.text.map((t) => t.text).join('')
RECURSIVE JoinTexts(_)
JoinTexts(items) ==
    IF items = <<>> THEN <<>>
    ELSE (IF Head(items).text = Undefined THEN <<>> ELSE Head(items).text)
         \o JoinTexts(Tail(items))

\* One text node per ParagraphItem.
createTextFrames(paragraphItems) ==
    [j \in 1..Len(paragraphItems) |->
        [characters |-> JoinTexts(paragraphItems[j].text),
         isList |-> paragraphItems[j].isList]]

----------------------------------------------------------------------------
(* The packages of the pipeline specification *)

MaxSlides == 3

SlideNames == {<<2>>, <<1, 0>>, <<0, 2>>, <<1>>}

TextA == <<"a">>
TextB == <<"b">>

Run(t, b) == [t |-> t, b |-> b]
Para(runs, pPr) == [runs |-> runs, pPr |-> pPr]
Shape(ph, paras) == [ph |-> ph, hasBody |-> TRUE, paras |-> paras]

Malformed == [ok |-> FALSE, shapes |-> <<>>]

\* A title shape "a" and a body shape with the paragraph "b".
DocTitled ==
    [ok |-> TRUE,
     shapes |-> <<Shape(PhTitle, <<Para(<<Run(TextA, "absent")>>, "absent")>>),
                  Shape(PhBody, <<Para(<<Run(TextB, "1")>>, "absent")>>)>>]

\* A body shape whose placeholder has no type attribute.
DocNoType ==
    [ok |-> TRUE,
     shapes |-> <<Shape(PhNoType, <<Para(<<Run(TextB, "absent")>>, "buNone")>>)>>]

\* A slide without a title whose paragraph has a second run with no a:t element.
DocRunNoText ==
    [ok |-> TRUE,
     shapes |-> <<Shape(PhAbsent, <<Para(<<Run(TextB, "absent"), Run(Undefined, "absent")>>,
                                         "absent")>>)>>]

Rel(type, target) == [hasAttrs |-> TRUE, Type |-> type, Target |-> target]

MPng == <<"m", ".", "png">>
MGif == <<"m", ".", "gif">>

RelsMalformed == [ok |-> FALSE, rels |-> <<>>]
RelsEmpty == [ok |-> TRUE, rels |-> <<>>]
RelsImages ==
    [ok |-> TRUE,
     rels |-> <<Rel(OtherType, DotDotSlash \o <<"layout">>),
                Rel(ImageType, DotDotSlash \o MPng),
                Rel(ImageType, DotDotSlash \o MGif)>>]

\* What a package holds for one slide: the slide part and its rels part (<<>>: none).
PartChoices ==
    {[doc |-> Malformed, rels |-> <<RelsEmpty>>],
     [doc |-> DocTitled, rels |-> <<>>],
     [doc |-> DocTitled, rels |-> <<RelsEmpty>>],
     [doc |-> DocTitled, rels |-> <<RelsImages>>],
     [doc |-> DocTitled, rels |-> <<RelsMalformed>>],
     [doc |-> DocNoType, rels |-> <<RelsEmpty>>],
     [doc |-> DocRunNoText, rels |-> <<RelsEmpty>>]}

PipeMedia == {Ppt \o MPng, Ppt \o MGif}

\* The sequences of distinct slide names: the orders an archive can list them in.
NameOrders == {s \in SeqsUpTo(SlideNames, MaxSlides) :
                  \A i, j \in 1..Len(s) : i # j => s[i] # s[j]}

RECURSIVE RelsEntries(_, _)
RelsEntries(order, choice) ==
    IF order = <<>> THEN <<>>
    ELSE (IF choice[1].rels = <<>> THEN <<>>
          ELSE <<[name |-> Head(order), doc |-> choice[1].rels[1]]>>)
         \o RelsEntries(Tail(order), Tail(choice))

Idle ==
    /\ pc = "idle"
    /\ slideGrids = 0
    /\ slidePaths = <<>>
    /\ next = 0
    /\ slides = <<>>
    /\ origin = <<>>
    /\ frames = <<>>
    /\ failed = FALSE

NoHarness ==
    /\ fnPc = "off"
    /\ fnIn = <<>>
    /\ fnOut = <<>>

Init ==
    /\ Idle
    /\ NoHarness
    /\ \/ /\ msgData = "zip"
          /\ zipMedia = PipeMedia
          /\ \E order \in NameOrders :
               \E choice \in [1..Len(order) -> PartChoices] :
                  /\ zipSlides = [i \in 1..Len(order) |->
                                    [name |-> order[i], doc |-> choice[i].doc]]
                  /\ zipRels = RelsEntries(order, choice)
       \/ /\ msgData \in {"corrupt", "notbuffer"}
          /\ zipMedia = {}
          /\ zipSlides = <<>>
          /\ zipRels = <<>>

----------------------------------------------------------------------------
(* handleFileMessage, step by step *)

\* Up to the start of the for loop of parseSlides: the ArrayBuffer test,
\* loadZipFile, getSlideGrids, the sort and the rels map.
HandleFileMessage ==
    /\ pc = "idle"
    /\ fnPc = "off"
    /\ IF msgData = "zip"
       THEN /\ pc' = "parse"
            /\ \E n \in 0..1 : slideGrids' = n
            /\ slidePaths' = SortByNumber(getSlidePaths(zipSlides))
            /\ next' = 1
            /\ failed' = FALSE
       ELSE /\ pc' = "done"
            /\ failed' = (msgData = "corrupt")
            /\ UNCHANGED <<slideGrids, slidePaths, next>>
    /\ UNCHANGED <<zipSlides, zipRels, zipMedia, msgData, slides, origin, frames>>
    /\ UNCHANGED fnVars

\* One iteration of the for loop of parseSlides.
ProcessSlide ==
    /\ pc = "parse"
    /\ next <= Len(slidePaths)
    /\ LET slideData == processSlide(zipSlides, zipRels, slidePaths[next])
       IN  /\ slides' = slides \o slideData
           /\ origin' = IF slideData = <<>> THEN origin ELSE Append(origin, slidePaths[next])
    /\ next' = next + 1
    /\ UNCHANGED <<pc, zipSlides, zipRels, zipMedia, msgData, slideGrids, slidePaths,
                   frames, failed>>
    /\ UNCHANGED fnVars

\* parseSlides returns; renderSlidesToFrames starts its loop over slides.entries().
ParseSlidesReturns ==
    /\ pc = "parse"
    /\ next > Len(slidePaths)
    /\ pc' = "render"
    /\ next' = 1
    /\ UNCHANGED <<zipSlides, zipRels, zipMedia, msgData, slideGrids, slidePaths,
                   slides, origin, frames, failed>>
    /\ UNCHANGED fnVars

\* One iteration of the loop of renderSlidesToFrames.  slide.number is assigned
\* first; createSlideFrame appends the frame and then reads slideGrids[0].id,
\* which throws when there is no grid style; createTextFrames throws at the
\* first paragraph that has a run without text.  An exception ends
\* handleFileMessage in its catch block.
RenderSlide ==
    /\ pc = "render"
    /\ next <= Len(slides)
    /\ LET number == next
           slide == slides[next]
       IN  /\ slides' = [slides EXCEPT ![next].number = number]
           /\ IF slideGrids = 0
              THEN /\ frames' = Append(frames, [name |-> number, title |-> <<>>,
                                                texts |-> <<>>, images |-> NoImageFrames])
                   /\ failed' = TRUE
                   /\ pc' = "done"
              ELSE IF TextFramesThrow(slide.text)
              THEN /\ frames' = Append(frames,
                        [name |-> number, title |-> slide.title,
                         texts |-> createTextFrames(
                                     SubSeq(slide.text, 1, FirstThrowing(slide.text) - 1)),
                         images |-> NoImageFrames])
                   /\ failed' = TRUE
                   /\ pc' = "done"
              ELSE /\ frames' = Append(frames,
                        [name |-> number, title |-> slide.title,
                         texts |-> createTextFrames(slide.text),
                         images |-> createImageFrames(slide.images, zipMedia)])
                   /\ UNCHANGED <<failed, pc>>
    /\ next' = next + 1
    /\ UNCHANGED <<zipSlides, zipRels, zipMedia, msgData, slideGrids, slidePaths, origin>>
    /\ UNCHANGED fnVars

\* The loop of renderSlidesToFrames is over; handleFileMessage returns.
RenderReturns ==
    /\ pc = "render"
    /\ next > Len(slides)
    /\ pc' = "done"
    /\ UNCHANGED <<zipSlides, zipRels, zipMedia, msgData, slideGrids, slidePaths, next,
                   slides, origin, frames, failed>>
    /\ UNCHANGED fnVars

Next ==
    \/ HandleFileMessage
    \/ ProcessSlide
    \/ ParseSlidesReturns
    \/ RenderSlide
    \/ RenderReturns

Spec == Init /\ [][Next]_vars

----------------------------------------------------------------------------
(* Unit specifications: one function applied to every argument of a bounded set *)

PipelineOff ==
    /\ Idle
    /\ msgData = "none"
    /\ zipSlides = <<>>
    /\ zipRels = <<>>
    /\ zipMedia = {}

NothingYet == [threw |-> FALSE, value |-> <<>>]

(* extractImagePaths, then createImageFrames on its result *)

MaxRels == 3

\* "../m.png", "../m.gif", "m/../m.png", "m.jpg", "../m"
RelTargets ==
    {DotDotSlash \o MPng,
     DotDotSlash \o MGif,
     <<"m", "/">> \o DotDotSlash \o MPng,
     <<"m", ".", "jpg">>,
     DotDotSlash \o <<"m">>}

Relationships ==
    {Rel(type, target) : type \in {ImageType, OtherType}, target \in RelTargets}
    \cup {Rel(type, Undefined) : type \in {ImageType, OtherType}}
    \cup {[hasAttrs |-> FALSE, Type |-> OtherType, Target |-> Undefined]}

MediaChoices == SUBSET {Ppt \o MPng, Ppt \o MGif}

InitRels ==
    /\ PipelineOff
    /\ fnPc = "extractImagePaths"
    /\ \E rels \in SeqsUpTo(Relationships, MaxRels), media \in MediaChoices :
          fnIn = [relsData |-> [ok |-> TRUE, rels |-> rels], media |-> media]
    /\ fnOut = [images |-> NothingYet, frames |-> NoImageFrames]

ExtractImagePaths ==
    /\ fnPc = "extractImagePaths"
    /\ fnOut' = [fnOut EXCEPT !.images = extractImagePaths(fnIn.relsData)]
    /\ fnPc' = "createImageFrames"
    /\ UNCHANGED <<fnIn, pipeVars>>

CreateImageFrames ==
    /\ fnPc = "createImageFrames"
    /\ ~fnOut.images.threw
    /\ fnOut' = [fnOut EXCEPT !.frames = createImageFrames(fnOut.images.value, fnIn.media)]
    /\ fnPc' = "imagesDone"
    /\ UNCHANGED <<fnIn, pipeVars>>

NextRels == ExtractImagePaths \/ CreateImageFrames

SpecRels == InitRels /\ [][NextRels]_vars

(* formatParagraphItems, once and then on its own result *)

MaxFmtRuns == 2
MaxFmtParas == 2

\* '', 'a', 'A', 'ab'
FmtTexts == {<<>>, <<"a">>, <<"A">>, <<"a", "b">>}

TextItems == [text : FmtTexts, isBold : BOOLEAN]

ParagraphItems == [text : SeqsUpTo(TextItems, MaxFmtRuns), isList : BOOLEAN]

InitFormat ==
    /\ PipelineOff
    /\ fnPc = "formatParagraphItems"
    /\ fnIn \in SeqsUpTo(ParagraphItems, MaxFmtParas)
    /\ fnOut = [once |-> NothingYet, twice |-> NothingYet]

FormatParagraphItems ==
    /\ fnPc = "formatParagraphItems"
    /\ fnOut' = [fnOut EXCEPT !.once = formatParagraphItems(fnIn)]
    /\ fnPc' = "formatAgain"
    /\ UNCHANGED <<fnIn, pipeVars>>

FormatAgain ==
    /\ fnPc = "formatAgain"
    /\ ~fnOut.once.threw
    /\ fnOut' = [fnOut EXCEPT !.twice = formatParagraphItems(fnOut.once.value)]
    /\ fnPc' = "formatDone"
    /\ UNCHANGED <<fnIn, pipeVars>>

NextFormat == FormatParagraphItems \/ FormatAgain

SpecFormat == InitFormat /\ [][NextFormat]_vars

(* extractTextData, then formatParagraphItems on its paragraphs *)

MaxShapes == 2
MaxParas == 1
MaxRuns == 2

\* 'a', 'b', '' (an empty a:t) and undefined (no a:t); bold only on 'a'.
XmlRuns ==
    {Run(t, "absent") : t \in {TextA, TextB, <<>>, Undefined}} \cup {Run(TextA, "1")}

XmlParas == {Para(runs, pPr) : runs \in SeqsUpTo(XmlRuns, MaxRuns),
                               pPr \in {"absent", "buNone"}}

XmlShapes ==
    {[ph |-> ph, hasBody |-> TRUE, paras |-> paras] :
        ph \in {PhAbsent, PhNoType, PhTitle, PhCtrTitle, PhBody},
        paras \in SeqsUpTo(XmlParas, MaxParas)}
    \cup {[ph |-> ph, hasBody |-> FALSE, paras |-> <<>>] :
            ph \in {PhAbsent, PhNoType, PhTitle, PhCtrTitle, PhBody}}

NoTextData == [threw |-> FALSE, title |-> <<>>, paragraphs |-> <<>>]

InitText ==
    /\ PipelineOff
    /\ fnPc = "extractTextData"
    /\ \E shapes \in SeqsUpTo(XmlShapes, MaxShapes) : fnIn = [ok |-> TRUE, shapes |-> shapes]
    /\ fnOut = [textData |-> NoTextData, text |-> NothingYet]

ExtractTextData ==
    /\ fnPc = "extractTextData"
    /\ fnOut' = [fnOut EXCEPT !.textData = extractTextData(fnIn)]
    /\ fnPc' = "formatText"
    /\ UNCHANGED <<fnIn, pipeVars>>

FormatText ==
    /\ fnPc = "formatText"
    /\ ~fnOut.textData.threw
    /\ fnOut' = [fnOut EXCEPT !.text = formatParagraphItems(fnOut.textData.paragraphs)]
    /\ fnPc' = "textDone"
    /\ UNCHANGED <<fnIn, pipeVars>>

NextText == ExtractTextData \/ FormatText

SpecText == InitText /\ [][NextText]_vars

----------------------------------------------------------------------------
(* Claims about parseSlides and the Slide list (specification Spec) *)

Returned == pc \in {"render", "done"} /\ msgData = "zip"

SlidePartNames == {zipSlides[i].name : i \in 1..Len(zipSlides)}

\* C1, as stated: the slides returned by parseSlides are in strictly increasing
\* order of the number parsed from their part path, for every package.
C1_StrictlyIncreasing ==
    Returned =>
        \A i, j \in 1..Len(origin) :
            i < j => SlideNumber(origin[i]) < SlideNumber(origin[j])

\* C1, amended: the slides returned by parseSlides are in non-decreasing order
\* of the number parsed from their part path, whatever the enumeration order
\* and whichever slides are skipped, and in strictly increasing order when no
\* two slide parts of the package parse to the same number (slide2.xml and
\* slide02.xml both parse to 2).
C1_OrderedByNumber ==
    Returned =>
        /\ \A i, j \in 1..Len(origin) :
              i < j => SlideNumber(origin[i]) <= SlideNumber(origin[j])
        /\ (\A a, b \in SlidePartNames : a # b => SlideNumber(a) # SlideNumber(b))
              => \A i, j \in 1..Len(origin) :
                    i < j => SlideNumber(origin[i]) < SlideNumber(origin[j])

\* C1 witness: slide10 is enumerated before slide2 and slide1, one of the three
\* parts was skipped, and the two slides returned are in numeric order.
C1_Witness ==
    /\ Returned
    /\ getSlidePaths(zipSlides) = <<<<1, 0>>, <<2>>, <<1>>>>
    /\ Len(origin) = 2
    /\ origin[2] = <<1, 0>>

\* C2: every Slide carries as number the number parsed from its own part path,
\* from the moment processSlide returned it to the end of the run (so the
\* slides left after a skip keep their source ordinals).
C2_NumberIsSourceOrdinal ==
    \A i \in 1..Len(slides) : slides[i].number = SlideNumber(origin[i])

\* The parts of the package by name.
SlideDoc(name) == ZipFile(zipSlides, name)[1].doc
HasRels(name) == ZipFile(zipRels, name) # <<>>
RelsDoc(name) == ZipFile(zipRels, name)[1].doc

\* Processing the part raises an exception: its XML or the XML of its rels part
\* is malformed, or one of the three extraction functions throws.
ProcessingFails(name) ==
    \/ ~SlideDoc(name).ok
    \/ HasRels(name) /\ ~RelsDoc(name).ok
    \/ /\ SlideDoc(name).ok
       /\ \/ extractTextData(SlideDoc(name)).threw
          \/ formatParagraphItems(extractTextData(SlideDoc(name)).paragraphs).threw
    \/ HasRels(name) /\ RelsDoc(name).ok /\ extractImagePaths(RelsDoc(name)).threw

\* C3: when processing one slide part fails, only that slide is dropped: every
\* slide part has been visited and every other part, whose own processing
\* raises nothing, is in the output.
C3_FailureDropsOnlyThatSlide ==
    (Returned /\ \E bad \in SlidePartNames : ProcessingFails(bad)) =>
        \A name \in SlidePartNames :
            ~ProcessingFails(name) => name \in Range(origin)

\* C4: a slide part without a rels part still yields a Slide, with its title,
\* its paragraphs and no images.
C4_NoRelsStillYieldsSlide ==
    Returned =>
        \A name \in SlidePartNames :
            (~HasRels(name) /\ ~ProcessingFails(name)) =>
                \E i \in 1..Len(origin) :
                    /\ origin[i] = name
                    /\ slides[i].title = extractTextData(SlideDoc(name)).title
                    /\ slides[i].text =
                         formatParagraphItems(extractTextData(SlideDoc(name)).paragraphs).value
                    /\ slides[i].images = <<>>

----------------------------------------------------------------------------
(* Another check on Spec: the isolation of failures by itself *)

\* Every slide part is visited, and a part that has a rels part and whose
\* processing raises nothing is in the output, whatever the other parts do.
FailuresAreIsolated ==
    Returned =>
        /\ Len(slidePaths) = Len(zipSlides)
        /\ \A name \in SlidePartNames :
              (HasRels(name) /\ ~ProcessingFails(name)) <=> name \in Range(origin)

----------------------------------------------------------------------------
(* Claims about the paragraphs (specifications SpecText and SpecFormat) *)

\* The blocks shown for a paragraph list: text and list state of each entry.
Blocks(paragraphItems) == createTextFrames(paragraphItems)

\* mergeAdjacent of the specification: a block joins the block before it, after
\* a newline, when both have the same isList.
RECURSIVE MergeAdjacent(_)
MergeAdjacent(blocks) ==
    IF Len(blocks) <= 1 THEN blocks
    ELSE LET front == MergeAdjacent(SubSeq(blocks, 1, Len(blocks) - 1))
             last == blocks[Len(blocks)]
             prev == front[Len(front)]
         IN  IF prev.isList = last.isList
             THEN [front EXCEPT ![Len(front)].characters =
                                   prev.characters \o <<"\n">> \o last.characters]
             ELSE Append(front, last)

\* C5: in the paragraph list of an output Slide every maximal run of paragraphs
\* of the same isList is one block, its text the newline-joined text of the
\* paragraphs, so that no two adjacent blocks have the same isList.
C5_AdjacentParagraphsMerged ==
    (fnPc = "textDone" /\ ~fnOut.text.threw) =>
        /\ Blocks(fnOut.text.value) = MergeAdjacent(Blocks(fnOut.text.value))
        /\ \A j \in 1..(Len(fnOut.text.value) - 1) :
              fnOut.text.value[j].isList # fnOut.text.value[j + 1].isList

\* The text capitalizeLead gives the k-th run of a paragraph.
LeadCapitalized(text, k) ==
    IF k = 1 /\ text # <<>>
    THEN <<ToUpperCase(text[1])>> \o SubSeq(text, 2, Len(text))
    ELSE text

\* C6: formatParagraphItems returns its argument with the first character of
\* the first run of each paragraph uppercased and nothing else changed, a
\* paragraph whose first run is empty included (it does not fail), and applied
\* to its own result it changes nothing.
C6_CapitalizeLead ==
    /\ fnPc \in {"formatAgain", "formatDone"} =>
          /\ ~fnOut.once.threw
          /\ Len(fnOut.once.value) = Len(fnIn)
          /\ \A j \in 1..Len(fnIn) :
                /\ fnOut.once.value[j].isList = fnIn[j].isList
                /\ Len(fnOut.once.value[j].text) = Len(fnIn[j].text)
                /\ \A k \in 1..Len(fnIn[j].text) :
                      /\ fnOut.once.value[j].text[k].isBold = fnIn[j].text[k].isBold
                      /\ fnOut.once.value[j].text[k].text =
                            LeadCapitalized(fnIn[j].text[k].text, k)
    /\ fnPc = "formatDone" => fnOut.twice = fnOut.once

\* C10: every run of every paragraph extractTextData emits has a text, and the
\* text is not empty.
C10_RunsNonEmpty ==
    fnPc \in {"formatText", "textDone"} =>
        \A j \in 1..Len(fnOut.textData.paragraphs) :
            \A k \in 1..Len(fnOut.textData.paragraphs[j].text) :
                /\ fnOut.textData.paragraphs[j].text[k].text # Undefined
                /\ fnOut.textData.paragraphs[j].text[k].text # <<>>

----------------------------------------------------------------------------
(* Claims about the images (specification SpecRels) *)

Extracted == fnPc \in {"createImageFrames", "imagesDone"} /\ ~fnOut.images.threw

\* The indices of the image relationships of the rels part, and the k-th of them.
ImageRelIndices ==
    {i \in 1..Len(fnIn.relsData.rels) : fnIn.relsData.rels[i].Type = ImageType}

KthImageRel(k) ==
    CHOOSE i \in ImageRelIndices : Cardinality({j \in ImageRelIndices : j <= i}) = k

\* The Target without its leading "../" segment, when it has one.
WithoutLeadingDotDot(target) ==
    IF Len(target) >= 3 /\ SubSeq(target, 1, 3) = DotDotSlash
    THEN SubSeq(target, 4, Len(target))
    ELSE target

\* C7: the path resolved for an image relationship is "ppt/" followed by the
\* Target less one leading "../"; a "../" anywhere else stays in place.
C7_OnlyLeadingSegmentStripped ==
    Extracted =>
        /\ Len(fnOut.images.value) = Cardinality(ImageRelIndices)
        /\ \A k \in 1..Len(fnOut.images.value) :
              fnOut.images.value[k] =
                 Ppt \o WithoutLeadingDotDot(fnIn.relsData.rels[KthImageRel(k)].Target)

Supported(imagePath) == LastDotSegment(imagePath) \in SupportedImageTypes

C9_ImagesFromImageRelationships ==
    Extracted =>
        /\ Len(fnOut.images.value) = Cardinality(ImageRelIndices)
        /\ \A k \in 1..Len(fnOut.images.value) :
              fnOut.images.value[k] = ImagePath(fnIn.relsData.rels[KthImageRel(k)].Target)

\* C9 witness: a relationship of another type stands between two image
\* relationships, and the list holds the two image paths in their order.
C9_Witness ==
    /\ Extracted
    /\ Len(fnIn.relsData.rels) = 3
    /\ ImageRelIndices = {1, 3}
    /\ fnIn.relsData.rels[2].Target = DotDotSlash \o MPng
    /\ fnOut.images.value = <<Ppt \o MGif, Ppt \o <<"m", ".", "jpg">>>>

----------------------------------------------------------------------------
(* Claims about the title (specification SpecText) and about well-formed
   slide parts (specification Spec) *)

\* The shape shapes.find stops at, in the slide handed to extractTextData.
TitleShapeIndex == FindTitleShape(fnIn.shapes, 1)

\* The text of a shape: the texts of the runs of its paragraphs, in order.
RECURSIVE RunsText(_)
RunsText(runs) ==
    IF runs = <<>> THEN <<>>
    ELSE (IF Head(runs).t = Undefined THEN <<>> ELSE Head(runs).t) \o RunsText(Tail(runs))

RECURSIVE ShapeText(_)
ShapeText(paras) ==
    IF paras = <<>> THEN <<>> ELSE RunsText(Head(paras).runs) \o ShapeText(Tail(paras))

\* The shapes of the slide less its title shape.
ShapesButTitle ==
    SubSeq(fnIn.shapes, 1, TitleShapeIndex - 1)
        \o SubSeq(fnIn.shapes, TitleShapeIndex + 1, Len(fnIn.shapes))

\* C11: for a slide with a title or ctrTitle shape, the title returned is the
\* text of that shape, and the paragraphs are those of the other shapes less
\* the runs whose text equals the title: no run of the title shape is emitted.
C11_TitleShapeExcluded ==
    (fnPc \in {"formatText", "textDone"} /\ ~fnOut.textData.threw /\ TitleShapeIndex > 0) =>
        /\ fnOut.textData.title = ShapeText(fnIn.shapes[TitleShapeIndex].paras)
        /\ fnOut.textData.paragraphs =
              ParagraphsOfShapes(ShapesButTitle, 1, fnOut.textData.title)

\* C12: a slide part whose XML is well-formed and whose rels part is present
\* and well-formed is in the output, whatever its shapes are.
C12_WellFormedNeverDropped ==
    Returned =>
        \A name \in SlidePartNames :
            (SlideDoc(name).ok /\ HasRels(name) /\ RelsDoc(name).ok) =>
                name \in Range(origin)

====
